---- MODULE Spec2Model ----
(***************************************************************************)
(* Model of scripts/bpsw/bpsw_worker.py: the arithmetic primitives, the    *)
(* native BPSW test (trial division, Miller-Rabin base 2, Lucas-Selfridge), *)
(* the candidate generators and the task executor main().                  *)
(*                                                                         *)
(* The module holds three state machines over the same variables:          *)
(*   Spec          - main(), one run per parsed argument record;           *)
(*   PrimalitySpec - direct calls of the primality tests on bounded n;     *)
(*   ArithSpec     - direct calls of egcd / crt_pair / build_mod_constraint*)
(* gmpy2 is absent in every run (the native path of is_bpsw_probable_prime).*)
(* random.Random is modelled as a nondeterministic choice of each draw.    *)
(***************************************************************************)
EXTENDS Integers, Sequences, FiniteSets, TLC

VARIABLES
    args,       \* the parsed arguments of main(), or the inputs of a direct call
    pc,         \* control position
    checked,    \* main: checked
    hits,       \* main: hits (the n of every hit record, in order)
    errors,     \* main: errors (the seed of every error record, in order)
    cur,        \* main: the loop variable n / k / seed of the current iteration
    factors,    \* generator: factors
    candidate,  \* main: candidate (None, or the product n the generator returned)
    n,          \* is_bpsw_probable_prime / lucas_selfridge: n
    d,          \* lucas_selfridge: d of the D-selection loop
    sign,       \* lucas_selfridge: sign of the D-selection loop
    result,     \* the value returned by the last completed call
    output,     \* "none", "report" (the JSON line was printed) or the error raised
    tested,     \* history: number of is_bpsw_probable_prime invocations of this run
    nones,      \* history: number of iterations whose generator returned None
    tried       \* history: D candidates rejected so far in this call (saturating)

vars == <<args, pc, checked, hits, errors, cur, factors, candidate,
          n, d, sign, result, output, tested, nones, tried>>

None == "None"

(***************************************************************************)
(* Bounds of the model.                                                    *)
(***************************************************************************)
MaxN == 120            \* direct primality calls: n in 0..MaxN
MaxTried == 6          \* saturation of the history counter tried
MaxAbs == 6            \* egcd: a, b in -MaxAbs..MaxAbs; crt_pair residues
MaxMod == 6            \* crt_pair: m1, m2 in 1..MaxMod

(***************************************************************************)
(* Python integer semantics.                                               *)
(***************************************************************************)
\* a % b of Python (result has the sign of b); b # 0
PyMod(a, b) == IF b > 0 THEN a % b ELSE -((-a) % (-b))

\* a // b of Python (floor division); b # 0
PyDiv(a, b) == IF b > 0 THEN a \div b ELSE (-a) \div (-b)

Abs(a) == IF a < 0 THEN -a ELSE a

\* A Python local bound to the value of a call is written
\*     CHOOSE x \in {F(r) : r \in {call}} : TRUE
\* which is F(call) with the call evaluated once.

\* pow(a, e, m), e >= 0, m >= 1, by square and multiply
RECURSIVE pow(_, _, _)
pow(a, e, m) ==
    IF e = 0 THEN 1 % m
    ELSE LET h == pow(a, e \div 2, m)
             sq == (h * h) % m
         IN  IF e % 2 = 1 THEN (sq * (a % m)) % m ELSE sq

\* math.isqrt(n), n >= 0: binary search for the largest r with r*r <= n
RECURSIVE IsqrtIn(_, _, _)
IsqrtIn(m, lo, hi) ==
    IF lo >= hi THEN lo
    ELSE LET mid == (lo + hi + 1) \div 2
         IN  IF mid <= m \div mid THEN IsqrtIn(m, mid, hi) ELSE IsqrtIn(m, lo, mid - 1)

isqrt(m) == IF m = 0 THEN 0 ELSE IsqrtIn(m, 1, m)

is_square(m) ==
    IF m < 0 THEN FALSE
    ELSE LET root == isqrt(m) IN root * root = m

\* len(str(abs(n)))
RECURSIVE DigitsOf(_)
DigitsOf(m) == IF m < 10 THEN 1 ELSE 1 + DigitsOf(m \div 10)

digits(m) == DigitsOf(Abs(m))

\* math.prod(factors) if factors else 1
RECURSIVE prod(_)
prod(s) == IF s = <<>> THEN 1 ELSE Head(s) * prod(Tail(s))

(***************************************************************************)
(* jacobi(a, n)                                                            *)
(***************************************************************************)
\* the inner loop: while a % 2 == 0: a //= 2; flip result when n % 8 in (3, 5)
RECURSIVE StripTwos(_, _, _)
StripTwos(a, m, res) ==
    IF a % 2 = 0
    THEN StripTwos(a \div 2, m, IF m % 8 \in {3, 5} THEN -res ELSE res)
    ELSE <<a, res>>

\* the outer loop: while a != 0
RECURSIVE JacobiLoop(_, _, _)
JacobiLoop(a, m, res) ==
    IF a = 0 THEN (IF m = 1 THEN res ELSE 0)
    ELSE LET Swap(st) ==
                 LET a2 == m            \* a, n = n, a
                     m2 == st[1]
                     r2 == IF a2 % 4 = 3 /\ m2 % 4 = 3 THEN -st[2] ELSE st[2]
                 IN  JacobiLoop(a2 % m2, m2, r2)
         IN  CHOOSE x \in {Swap(st) : st \in {StripTwos(a, m, res)}} : TRUE

jacobi(a, m) ==
    IF m <= 0 \/ m % 2 = 0 THEN 0
    ELSE JacobiLoop(a % m, m, 1)

(***************************************************************************)
(* miller_rabin(n, bases)                                                  *)
(***************************************************************************)
\* n - 1 = dd * 2^s with dd odd: <<dd, s>>
RECURSIVE SplitTwos(_, _)
SplitTwos(dd, s) == IF dd % 2 = 0 THEN SplitTwos(dd \div 2, s + 1) ELSE <<dd, s>>

\* for _ in range(s - 1): x = pow(x, 2, n); TRUE when some x equals n - 1
RECURSIVE MrSquarings(_, _, _)
MrSquarings(x, m, left) ==
    IF left <= 0 THEN FALSE
    ELSE LET x2 == pow(x, 2, m)
         IN  IF x2 = m - 1 THEN TRUE ELSE MrSquarings(x2, m, left - 1)

\* the verdict of one base a: TRUE when the loop continues to the next base
MrBase(a, m, dd, s) ==
    IF a % m = 0 THEN TRUE
    ELSE LET x == pow(a, dd, m)
         IN  IF x \in {1, m - 1} THEN TRUE ELSE MrSquarings(x, m, s - 1)

miller_rabin(m, bases) ==
    IF m < 2 THEN FALSE
    ELSE IF m % 2 = 0 THEN m = 2
    ELSE LET ds == SplitTwos(m - 1, 0)
         IN  \A i \in 1..Len(bases) : MrBase(bases[i], m, ds[1], ds[2])

(***************************************************************************)
(* lucas_selfridge(n): everything after the D-selection loop               *)
(***************************************************************************)
\* while d_bit > 1: the ladder on <<u, v, q_k>>
RECURSIVE LucasLadder(_, _, _, _, _)
LucasLadder(u, v, qk, dbit, m) ==
    IF dbit <= 1 THEN <<u, v, qk>>
    ELSE LET u2 == IF dbit % 2 = 1 THEN (u * v) % m ELSE u
             v2 == (v * v - 2 * qk) % m
             q2 == (qk * qk) % m
         IN  LucasLadder(u2, v2, q2, dbit \div 2, m)

\* for _ in range(s - 1): v = (v*v - 2*q_k) % n; q_k = q_k^2 % n; TRUE when v == 0
RECURSIVE LucasDoublings(_, _, _, _)
LucasDoublings(v, qk, left, m) ==
    IF left <= 0 THEN FALSE
    ELSE LET v2 == (v * v - 2 * qk) % m
             q2 == (qk * qk) % m
         IN  IF v2 = 0 THEN TRUE ELSE LucasDoublings(v2, q2, left - 1, m)

\* lines 110-139 with the selected D = dsel
LucasTail(m, dsel) ==
    LET p == 1
        q == PyDiv(1 - dsel, 4)
        ds == SplitTwos(m + 1, 0)
        lad == LucasLadder(1, p, q, ds[1], m)
    IN  IF lad[1] = 0 \/ lad[2] = 0 THEN TRUE
        ELSE LucasDoublings(lad[2], lad[3], ds[2] - 1, m)

(***************************************************************************)
(* Calls of the primality tests.  A call either returns at once (pc "ret", *)
(* the value in result) or enters the D-selection loop of lucas_selfridge  *)
(* (pc "lucas_d"), which the actions LucasNextD and LucasSelect run.       *)
(***************************************************************************)
SMALL_PRIMES == <<2, 3, 5, 7, 11, 13, 17, 19, 23, 29, 31, 37>>

\* for p in SMALL_PRIMES: "prime" (n == p), "composite" (n % p == 0) or "pass"
RECURSIVE TrialDivision(_, _)
TrialDivision(m, i) ==
    IF i > Len(SMALL_PRIMES) THEN "pass"
    ELSE IF m = SMALL_PRIMES[i] THEN "prime"
    ELSE IF m % SMALL_PRIMES[i] = 0 THEN "composite"
    ELSE TrialDivision(m, i + 1)

\* is_probable_prime(n): the deep filter of the generators
is_probable_prime(m) ==
    IF m < 2 THEN FALSE
    ELSE IF TrialDivision(m, 1) # "pass" THEN TrialDivision(m, 1) = "prime"
    ELSE miller_rabin(m, <<2, 3, 5, 7, 11, 13, 17>>)

\* a return statement of the called test
Return(v) ==
    /\ pc' = "ret"
    /\ result' = v
    /\ UNCHANGED <<d, sign, tried>>

\* lucas_selfridge(n), lines 95-101: up to the entry of the while True loop
lucas_selfridge(m) ==
    /\ n' = m
    /\ IF m < 2 \/ m % 2 = 0 THEN Return(m = 2)
       ELSE IF is_square(m) THEN Return(FALSE)
       ELSE /\ pc' = "lucas_d"
            /\ d' = 5
            /\ sign' = 1
            /\ tried' = 0
            /\ UNCHANGED result

\* is_bpsw_probable_prime(n) with gmpy2 absent
is_bpsw_probable_prime(m) ==
    IF m < 2 THEN n' = m /\ Return(FALSE)
    ELSE IF TrialDivision(m, 1) # "pass"
         THEN n' = m /\ Return(TrialDivision(m, 1) = "prime")
    ELSE IF ~miller_rabin(m, <<2>>) THEN n' = m /\ Return(FALSE)
    ELSE lucas_selfridge(m)

\* the next candidate of the while True loop, lines 106-108:
\* d += 2; sign = -sign; d = sign * d
NextD(dd, sg) == <<(-sg) * (dd + 2), -sg>>

\* one iteration of the while True loop in which jacobi(d, n) != -1
LucasNextD ==
    /\ pc = "lucas_d"
    /\ jacobi(d, n) # -1
    /\ d' = NextD(d, sign)[1]
    /\ sign' = NextD(d, sign)[2]
    /\ tried' = IF tried < MaxTried THEN tried + 1 ELSE tried
    /\ UNCHANGED <<args, pc, checked, hits, errors, cur, factors, candidate,
                   n, result, output, tested, nones>>

\* the iteration in which jacobi(d, n) == -1: break, and run lines 110-139
LucasSelect ==
    /\ pc = "lucas_d"
    /\ jacobi(d, n) = -1
    /\ pc' = "ret"
    /\ result' = LucasTail(n, d)
    /\ UNCHANGED <<args, checked, hits, errors, cur, factors, candidate,
                   n, d, sign, output, tested, nones, tried>>

(***************************************************************************)
(* PrimalitySpec: one direct call of a primality test per behaviour.       *)
(***************************************************************************)
BaseLists == {<<>>, <<2>>, <<2, 3>>, <<2, 3, 5, 7, 11, 13, 17>>}

PrimalityInit ==
    /\ args \in [fn : {"is_bpsw_probable_prime", "lucas_selfridge"},
                  n : 0..MaxN, bases : {<<>>}]
               \cup [fn : {"miller_rabin"}, n : 0..MaxN, bases : BaseLists]
    /\ pc = "call"
    /\ checked = 0 /\ hits = <<>> /\ errors = <<>> /\ cur = 0
    /\ factors = <<>> /\ candidate = [is_none |-> TRUE, n |-> 0]
    /\ n = 0 /\ d = 0 /\ sign = 0 /\ result = None
    /\ output = "none" /\ tested = 0 /\ nones = 0 /\ tried = 0

CallBpsw ==
    /\ pc = "call" /\ args.fn = "is_bpsw_probable_prime"
    /\ is_bpsw_probable_prime(args.n)
    /\ UNCHANGED <<args, checked, hits, errors, cur, factors, candidate,
                   output, tested, nones>>

CallLucas ==
    /\ pc = "call" /\ args.fn = "lucas_selfridge"
    /\ lucas_selfridge(args.n)
    /\ UNCHANGED <<args, checked, hits, errors, cur, factors, candidate,
                   output, tested, nones>>

CallMillerRabin ==
    /\ pc = "call" /\ args.fn = "miller_rabin"
    /\ n' = args.n
    /\ Return(miller_rabin(args.n, args.bases))
    /\ UNCHANGED <<args, checked, hits, errors, cur, factors, candidate,
                   output, tested, nones>>

PrimalityNext ==
    \/ CallBpsw
    \/ CallLucas
    \/ CallMillerRabin
    \/ LucasNextD
    \/ LucasSelect

PrimalitySpec == PrimalityInit /\ [][PrimalityNext]_vars

\* the interpreter runs a started call to its next step
FairPrimalitySpec == PrimalitySpec /\ WF_vars(PrimalityNext)

\* reference predicate: n has no divisor in 2..n-1
IsPrime(m) == m >= 2 /\ \A k \in 2..(m - 1) : m % k # 0

(***************************************************************************)
(* egcd, crt_pair, build_mod_constraint                                    *)
(***************************************************************************)
\* egcd(a, b) -> <<g, x, y>>
RECURSIVE egcd(_, _)
egcd(a, b) ==
    IF b = 0 THEN <<a, 1, 0>>
    ELSE LET Back(r) == <<r[1], r[3], r[2] - PyDiv(a, b) * r[3]>>
         IN  CHOOSE x \in {Back(r) : r \in {egcd(b, PyMod(a, b))}} : TRUE

\* what a call gives back: a returned value, or the exception it raised
Returned(v) == [ok |-> TRUE, val |-> v]
Raised(e) == [ok |-> FALSE, err |-> e]

\* crt_pair with the division by g left out of t (the bug of a mutant)
crt_pair_t_undivided(a1, m1, a2, m2) ==
    LET Body(e) ==
            LET g == e[1]
                x == e[2]
            IN  IF g = 0 THEN Raised("ZeroDivisionError")
                ELSE IF PyMod(a2 - a1, g) # 0 THEN Raised("ValueError")
                ELSE LET lcm == PyDiv(m1, g) * m2
                         t == PyMod((a2 - a1) * x, PyDiv(m2, g))
                     IN  Returned(<<PyMod(a1 + m1 * t, lcm), lcm>>)
    IN  CHOOSE x \in {Body(e) : e \in {egcd(m1, m2)}} : TRUE

\* crt_pair(a1, m1, a2, m2) -> <<result, lcm>>, or ValueError("incompatible congruences")
crt_pair(a1, m1, a2, m2) ==
    LET Body(e) ==
            LET g == e[1]
                x == e[2]
            IN  IF g = 0 THEN Raised("ZeroDivisionError")
                ELSE IF PyMod(a2 - a1, g) # 0 THEN Raised("ValueError")
                ELSE LET lcm == PyDiv(m1, g) * m2
                         t == PyMod(PyDiv(a2 - a1, g) * x, PyDiv(m2, g))
                     IN  Returned(<<PyMod(a1 + m1 * t, lcm), lcm>>)
    IN  CHOOSE x \in {Body(e) : e \in {egcd(m1, m2)}} : TRUE

\* for a, m in constraints: skip m == 1, else residue, modulus = crt_pair(...)
RECURSIVE CombineConstraints(_, _, _, _)
CombineConstraints(cs, i, residue, modulus) ==
    IF i > Len(cs) THEN Returned(<<residue, modulus>>)
    ELSE IF cs[i][2] = 1 THEN CombineConstraints(cs, i + 1, residue, modulus)
    ELSE LET Rest(r) == IF ~r.ok THEN r
                        ELSE CombineConstraints(cs, i + 1, r.val[1], r.val[2])
         IN  CHOOSE x \in {Rest(r) : r \in {crt_pair(residue, modulus,
                                                   PyMod(cs[i][1], cs[i][2]), cs[i][2])}} : TRUE

\* build_mod_constraint(m_primes, n_primes, mod5_residue) -> <<residue, modulus>>
build_mod_constraint(m_primes, n_primes, mod5_residue) ==
    LET pm == IF m_primes # <<>> THEN prod(m_primes) ELSE 1
        pn == IF n_primes # <<>> THEN prod(n_primes) ELSE 1
        constraints == << <<3, 8>>,
                          <<mod5_residue % 5, 5>>,
                          <<1, pm>>,
                          <<PyMod(-1, pn), pn>> >>
    IN  CombineConstraints(constraints, 1, 0, 1)

(***************************************************************************)
(* ArithSpec: one direct call of egcd, crt_pair or build_mod_constraint    *)
(* per behaviour.                                                          *)
(***************************************************************************)
\* the --m-primes / --n-primes lists and --mod5-residue values of the model
PrimeLists == {<<>>, <<3>>, <<5>>, <<3, 7>>}
Mod5Residues == {1, 2}

ArithInit ==
    /\ args \in [fn : {"egcd"}, a : -MaxAbs..MaxAbs, b : -MaxAbs..MaxAbs]
               \cup [fn : {"crt_pair"}, a1 : -MaxAbs..MaxAbs, m1 : 1..MaxMod,
                                        a2 : -MaxAbs..MaxAbs, m2 : 1..MaxMod]
               \cup [fn : {"build_mod_constraint"}, m_primes : PrimeLists,
                     n_primes : PrimeLists, mod5_residue : Mod5Residues]
    /\ pc = "call"
    /\ checked = 0 /\ hits = <<>> /\ errors = <<>> /\ cur = 0
    /\ factors = <<>> /\ candidate = [is_none |-> TRUE, n |-> 0]
    /\ n = 0 /\ d = 0 /\ sign = 0 /\ result = None
    /\ output = "none" /\ tested = 0 /\ nones = 0 /\ tried = 0

CallEgcd ==
    /\ pc = "call" /\ args.fn = "egcd"
    /\ pc' = "ret"
    /\ result' = egcd(args.a, args.b)
    /\ UNCHANGED <<args, checked, hits, errors, cur, factors, candidate,
                   n, d, sign, output, tested, nones, tried>>

CallCrtPair ==
    /\ pc = "call" /\ args.fn = "crt_pair"
    /\ pc' = "ret"
    /\ result' = crt_pair(args.a1, args.m1, args.a2, args.m2)
    /\ UNCHANGED <<args, checked, hits, errors, cur, factors, candidate,
                   n, d, sign, output, tested, nones, tried>>

CallBuildModConstraint ==
    /\ pc = "call" /\ args.fn = "build_mod_constraint"
    /\ pc' = "ret"
    /\ result' = build_mod_constraint(args.m_primes, args.n_primes, args.mod5_residue)
    /\ UNCHANGED <<args, checked, hits, errors, cur, factors, candidate,
                   n, d, sign, output, tested, nones, tried>>

ArithNext ==
    \/ CallEgcd
    \/ CallCrtPair
    \/ CallBuildModConstraint

ArithSpec == ArithInit /\ [][ArithNext]_vars

\* reference: the greatest common divisor and least common multiple of a, b >= 1
Gcd(a, b) == CHOOSE g \in 1..a : a % g = 0 /\ b % g = 0 /\
                 \A h \in 1..a : (a % h = 0 /\ b % h = 0) => h <= g
Lcm(a, b) == CHOOSE l \in 1..(a * b) : l % a = 0 /\ l % b = 0 /\
                 \A k \in 1..(a * b) : (k % a = 0 /\ k % b = 0) => l <= k

(***************************************************************************)
(* The candidate generators.  Every draw of random.Random is a             *)
(* nondeterministic choice, so a prime search is modelled by the set of    *)
(* values it can return.                                                   *)
(***************************************************************************)
\* the None a prime search returns (every real return value is >= 1)
NoPrime == 0

\* the None / product a generator returns to main
NoCandidate == [is_none |-> TRUE, n |-> 0]
Product(m) == [is_none |-> FALSE, n |-> m]

\* 10 ** e
RECURSIVE Pow10(_)
Pow10(e) == IF e <= 0 THEN 1 ELSE 10 * Pow10(e - 1)

\* base ** e
RECURSIVE IntPow(_, _)
IntPow(base, e) == IF e <= 0 THEN 1 ELSE base * IntPow(base, e - 1)

\* random_odd_in_range(rng, low, high): the values rng.randrange can give
random_odd_in_range(low, high) ==
    LET lo == IF low % 2 = 0 THEN low + 1 ELSE low
        hi == IF high % 2 = 0 THEN high - 1 ELSE high
    IN  {c \in lo..hi : (c - lo) % 2 = 0}

\* generate_chernick(k, require_prime_factors) -> None or n
generate_chernick(k, require_prime_factors) ==
    LET f1 == 6 * k + 1
        f2 == 12 * k + 1
        f3 == 18 * k + 1
    IN  IF require_prime_factors /\
           ~(is_probable_prime(f1) /\ is_probable_prime(f2) /\ is_probable_prime(f3))
        THEN NoCandidate
        ELSE Product(f1 * f2 * f3)

\* generate_pomerance_lite: predicate(p)
predicate(p) == p % 8 = 3 /\ jacobi(5, p) = -1

\* find_prime_with_filters(rng, digits_count, max_steps, predicate):
\* the set of values it can return (None after max_steps failed draws)
find_prime_with_filters(digits_count, max_steps) ==
    LET draws == random_odd_in_range(Pow10(digits_count - 1), Pow10(digits_count) - 1)
        good == {c \in draws : predicate(c) /\ is_probable_prime(c)}
    IN  IF max_steps <= 0 THEN {NoPrime}
        ELSE good \cup (IF draws \ good # {} THEN {NoPrime} ELSE {})

\* find_prime_in_progression: the while loop from candidate on
RECURSIVE ProgressionSearch(_, _, _, _, _)
ProgressionSearch(cand, high, modulus, steps, max_steps) ==
    IF ~(cand <= high /\ steps < max_steps) THEN NoPrime
    ELSE IF cand % 2 = 1 /\ is_probable_prime(cand) THEN cand
    ELSE ProgressionSearch(cand + modulus, high, modulus, steps + 1, max_steps)

\* find_prime_in_progression(rng, digits_count, residue, modulus, max_steps):
\* the set of values it can return
find_prime_in_progression(digits_count, residue, modulus, max_steps) ==
    LET low == Pow10(digits_count - 1)
        high == Pow10(digits_count) - 1
    IN  IF modulus <= 0 THEN {NoPrime}
        ELSE { LET delta == (residue - st) % modulus
                   c0 == st + delta
                   c1 == IF c0 < low THEN c0 + modulus ELSE c0
               IN  ProgressionSearch(c1, high, modulus, 0, max_steps)
               : st \in random_odd_in_range(low, high) }

\* generate_lambda_plus_one: the values d of one attempt
\* (for base, max_exp in lambda_factors: exp = rng.randint(0, max_exp))
RECURSIVE SmoothValues(_, _)
SmoothValues(lambda_factors, i) ==
    IF i > Len(lambda_factors) THEN {1}
    ELSE { IntPow(lambda_factors[i][1], e) * v :
             e \in 0..lambda_factors[i][2], v \in SmoothValues(lambda_factors, i + 1) }

\* generate_lambda_plus_one: the inner attempts loop, lines 379-392:
\* the set of factors it can append (None after max_steps rejected attempts)
lambda_factor_search(lambda_factors, require_prime, max_steps) ==
    LET ps == {v + 1 : v \in SmoothValues(lambda_factors, 1)}
        good == {p \in ps : p > 2 /\ (~require_prime \/ is_probable_prime(p))}
    IN  IF max_steps <= 0 THEN {NoPrime}
        ELSE good \cup (IF ps \ good # {} THEN {NoPrime} ELSE {})

\* the condition of the generators' while loop with the parity test left out
\* (the bug of a mutant)
LoopCondNoParity(fs, target_digits) ==
    digits(IF fs # <<>> THEN prod(fs) ELSE 1) < target_digits

\* the condition of the generators' while loop (lines 290, 321, 378)
LoopCond(fs, target_digits) ==
    digits(IF fs # <<>> THEN prod(fs) ELSE 1) < target_digits \/ Len(fs) % 2 = 0

(***************************************************************************)
(* main(): the task executor.  One behaviour is one run of the worker on   *)
(* one parsed argument record.                                             *)
(*   pc: "main" -> "range_loop" | "chernick_loop" | "seed_loop"            *)
(*       seed mode: "seed_loop" -> "gen" -> "gen_ret" -> ...               *)
(*       a BPSW call: -> "ret", or -> "lucas_d" -> "ret"                   *)
(*       "done" after print(json.dumps(payload)); "exit" after an          *)
(*       uncaught SystemExit / ValueError (nothing is printed to stdout).  *)
(***************************************************************************)
MaxStart == 3          \* range mode: --start in 0..MaxStart
MaxEnd == 100          \* range mode: --end in 0..MaxEnd
MaxCandidates == 1     \* range mode: --max-candidates in 0..MaxCandidates
MaxK == 6              \* chernick mode: --start, --end in 0..MaxK
MaxSeed == 1           \* seed mode: --seed-start, --seed-end in 0..MaxSeed
MaxFallback == 1       \* seed mode: --start, --end in 0..MaxFallback
MaxTargetDigits == 6   \* pomerance_lite: --target-digits in 1..MaxTargetDigits
MaxModularDigits == 1  \* pomerance_modular: --target-digits in 1..MaxModularDigits
MaxLambdaDigits == 1   \* lambda_plus_one: --target-digits in 1..MaxLambdaDigits
MaxSteps == 1          \* --max-steps in 0..MaxSteps

\* parse_args(): the argument record; fields a task type does not read keep
\* one value
BaseArgs ==
    [task_type |-> "main_odds", start |-> 0, end |-> 0,
     seed_start |-> 0, seed_end |-> 0, max_candidates |-> 0,
     target_digits |-> 1, prime_digits |-> 1, max_steps |-> 1,
     require_prime_factors |-> FALSE, require_prime |-> FALSE,
     mod5_residue |-> 2, m_primes |-> <<>>, n_primes |-> <<>>,
     lambda_factors |-> << <<4, 1>>, <<27, 1>> >>]

RangeArgs ==
    {[BaseArgs EXCEPT !.task_type = t, !.start = s, !.end = e, !.max_candidates = c] :
        t \in {"main_odds", "large_numbers"}, s \in 0..MaxStart, e \in 0..MaxEnd,
        c \in 0..MaxCandidates}

ChernickArgs ==
    {[BaseArgs EXCEPT !.task_type = "chernick", !.start = s, !.end = e,
                      !.require_prime_factors = r] :
        s \in 0..MaxK, e \in 0..MaxK, r \in BOOLEAN}

SeedRanges ==
    {[BaseArgs EXCEPT !.seed_start = ss, !.seed_end = se, !.start = s, !.end = e] :
        ss \in 0..MaxSeed, se \in 0..MaxSeed, s \in 0..MaxFallback, e \in 0..MaxFallback}

PomeranceLiteArgs ==
    {[a EXCEPT !.task_type = "pomerance_lite", !.target_digits = td, !.max_steps = ms] :
        a \in SeedRanges, td \in 1..MaxTargetDigits, ms \in 0..MaxSteps}

\* parse_prime_list(raw, fallback) never returns an empty list
ParsedPrimeLists == PrimeLists \ {<<>>}

PomeranceModularArgs ==
    {[a EXCEPT !.task_type = "pomerance_modular", !.prime_digits = 2,
               !.target_digits = td, !.max_steps = ms,
               !.m_primes = mp, !.n_primes = np, !.mod5_residue = r] :
        a \in SeedRanges, td \in 1..MaxModularDigits, ms \in 0..MaxSteps,
        mp \in ParsedPrimeLists, np \in ParsedPrimeLists, r \in Mod5Residues}

LambdaArgs ==
    {[a EXCEPT !.task_type = "lambda_plus_one", !.target_digits = td,
               !.max_steps = ms, !.require_prime = rp] :
        a \in SeedRanges, td \in 1..MaxLambdaDigits, ms \in 0..MaxSteps,
        rp \in BOOLEAN}

Init ==
    /\ args \in RangeArgs \cup ChernickArgs \cup PomeranceLiteArgs
                 \cup PomeranceModularArgs \cup LambdaArgs
    /\ pc = "main"
    /\ checked = 0 /\ hits = <<>> /\ errors = <<>> /\ cur = 0
    /\ factors = <<>> /\ candidate = NoCandidate
    /\ n = 0 /\ d = 0 /\ sign = 0 /\ result = None
    /\ output = "none" /\ tested = 0 /\ nones = 0 /\ tried = 0

RangeTasks == {"main_odds", "large_numbers"}
SeedTasks == {"pomerance_lite", "pomerance_modular", "lambda_plus_one"}

\* seed_start = args.seed_start or args.start; seed_end = args.seed_end or args.end
seed_start == IF args.seed_start # 0 THEN args.seed_start ELSE args.start
seed_end == IF args.seed_end # 0 THEN args.seed_end ELSE args.end

\* lines 459-465, 473-478, 488-495: the range check of the task type, and the
\* first value of its loop variable
MainStart ==
    /\ pc = "main"
    /\ IF args.task_type \in RangeTasks \cup {"chernick"}
       THEN IF args.start = 0 /\ args.end = 0
            THEN pc' = "exit" /\ output' = "SystemExit" /\ UNCHANGED cur
            ELSE IF args.task_type = "chernick"
                 THEN pc' = "chernick_loop" /\ cur' = args.start /\ UNCHANGED output
                 ELSE /\ pc' = "range_loop"
                      /\ cur' = IF args.start % 2 = 0 THEN args.start + 1 ELSE args.start
                      /\ UNCHANGED output
       ELSE IF seed_start = 0 /\ seed_end = 0
            THEN pc' = "exit" /\ output' = "SystemExit" /\ UNCHANGED cur
            ELSE pc' = "seed_loop" /\ cur' = seed_start /\ UNCHANGED output
    /\ UNCHANGED <<args, checked, hits, errors, factors, candidate,
                   n, d, sign, result, tested, nones, tried>>

\* lines 466-470: one iteration of for n in range(start, end + 1, 2), up to the
\* call of is_bpsw_probable_prime(n)
RangeIter ==
    /\ pc = "range_loop"
    /\ cur <= args.end
    /\ ~(args.max_candidates # 0 /\ checked >= args.max_candidates)
    /\ checked' = checked + 1
    /\ tested' = tested + 1
    /\ is_bpsw_probable_prime(cur)
    /\ UNCHANGED <<args, hits, errors, cur, factors, candidate, output, nones>>

\* ChernickIter with checked counted only when a candidate is BPSW-tested
\* (the bug of a mutant)
ChernickIterCountTested ==
    /\ pc = "chernick_loop"
    /\ cur <= args.end
    /\ candidate' = generate_chernick(cur, args.require_prime_factors)
    /\ IF candidate'.is_none
       THEN /\ nones' = nones + 1
            /\ cur' = cur + 1
            /\ UNCHANGED <<pc, n, d, sign, result, tested, tried, checked>>
       ELSE /\ checked' = checked + 1
            /\ tested' = tested + 1
            /\ is_bpsw_probable_prime(candidate'.n)
            /\ UNCHANGED <<cur, nones>>
    /\ UNCHANGED <<args, hits, errors, factors, output>>

\* lines 479-485: one iteration of for k in range(start, end + 1), up to the
\* continue or the call of is_bpsw_probable_prime(n)
ChernickIter ==
    /\ pc = "chernick_loop"
    /\ cur <= args.end
    /\ checked' = checked + 1
    /\ candidate' = generate_chernick(cur, args.require_prime_factors)
    /\ IF candidate'.is_none
       THEN /\ nones' = nones + 1
            /\ cur' = cur + 1
            /\ UNCHANGED <<pc, n, d, sign, result, tested, tried>>
       ELSE /\ tested' = tested + 1
            /\ is_bpsw_probable_prime(candidate'.n)
            /\ UNCHANGED <<cur, nones>>
    /\ UNCHANGED <<args, hits, errors, factors, output>>

\* lines 497-498 and the entry of the generator (rng = random.Random(seed),
\* factors = [], and build_mod_constraint for pomerance_modular, whose
\* ValueError nothing catches)
SeedIter ==
    /\ pc = "seed_loop"
    /\ cur <= seed_end
    /\ checked' = checked + 1
    /\ factors' = <<>>
    /\ IF args.task_type = "pomerance_modular" /\
          ~build_mod_constraint(args.m_primes, args.n_primes, args.mod5_residue).ok
       THEN pc' = "exit" /\ output' = "ValueError"
       ELSE pc' = "gen" /\ UNCHANGED output
    /\ UNCHANGED <<args, hits, errors, cur, candidate,
                   n, d, sign, result, tested, nones, tried>>

\* the values the prime search of one loop iteration of the generator can give
FactorSearch ==
    IF args.task_type = "pomerance_lite"
    THEN find_prime_with_filters(args.prime_digits, args.max_steps)
    ELSE IF args.task_type = "pomerance_modular"
    THEN LET Search(c) == find_prime_in_progression(args.prime_digits, c.val[1],
                                                    c.val[2], args.max_steps)
         IN  CHOOSE x \in {Search(c) : c \in {build_mod_constraint(args.m_primes,
                                        args.n_primes, args.mod5_residue)}} : TRUE
    ELSE lambda_factor_search(args.lambda_factors, args.require_prime, args.max_steps)

\* one evaluation of the generator's while loop (lines 290-296, 321-333,
\* 378-394): leave it and return the product, or search one more factor
GenStep ==
    /\ pc = "gen"
    /\ IF ~LoopCond(factors, args.target_digits)
       THEN /\ candidate' = Product(prod(factors))
            /\ pc' = "gen_ret"
            /\ UNCHANGED factors
       ELSE \E prime \in FactorSearch :
              IF prime = NoPrime
              THEN /\ candidate' = NoCandidate
                   /\ pc' = "gen_ret"
                   /\ UNCHANGED factors
              ELSE /\ factors' = Append(factors, prime)
                   /\ IF Len(factors') > 9
                      THEN candidate' = Product(prod(factors')) /\ pc' = "gen_ret"
                      ELSE UNCHANGED <<candidate, pc>>
    /\ UNCHANGED <<args, checked, hits, errors, cur,
                   n, d, sign, result, output, tested, nones, tried>>

\* lines 527-531: the generator returned; record the error and continue, or
\* call is_bpsw_probable_prime(n)
SeedCandidate ==
    /\ pc = "gen_ret"
    /\ IF candidate.is_none
       THEN /\ errors' = Append(errors, cur)
            /\ nones' = nones + 1
            /\ cur' = cur + 1
            /\ pc' = "seed_loop"
            /\ UNCHANGED <<n, d, sign, result, tested, tried>>
       ELSE /\ tested' = tested + 1
            /\ is_bpsw_probable_prime(candidate.n)
            /\ UNCHANGED <<errors, nones, cur>>
    /\ UNCHANGED <<args, checked, hits, factors, candidate, output>>

\* lines 470-471, 485-486, 531-532: is_bpsw_probable_prime returned; append
\* the hit, and go to the next iteration
AfterBpsw ==
    /\ pc = "ret"
    /\ hits' = IF result THEN Append(hits, n) ELSE hits
    /\ IF args.task_type \in RangeTasks
       THEN pc' = "range_loop" /\ cur' = cur + 2
       ELSE IF args.task_type = "chernick"
       THEN pc' = "chernick_loop" /\ cur' = cur + 1
       ELSE pc' = "seed_loop" /\ cur' = cur + 1
    /\ UNCHANGED <<args, checked, errors, factors, candidate,
                   n, d, sign, result, output, tested, nones, tried>>

\* the loop of the task type is over (exhausted, or the max_candidates break)
LoopOver ==
    \/ /\ pc = "range_loop"
       /\ cur > args.end \/ (args.max_candidates # 0 /\ checked >= args.max_candidates)
    \/ pc = "chernick_loop" /\ cur > args.end
    \/ pc = "seed_loop" /\ cur > seed_end

\* lines 534-544: print(json.dumps(payload))
PrintReport ==
    /\ LoopOver
    /\ pc' = "done"
    /\ output' = "report"
    /\ UNCHANGED <<args, checked, hits, errors, cur, factors, candidate,
                   n, d, sign, result, tested, nones, tried>>

Next ==
    \/ MainStart
    \/ RangeIter
    \/ ChernickIter
    \/ SeedIter
    \/ GenStep
    \/ SeedCandidate
    \/ LucasNextD
    \/ LucasSelect
    \/ AfterBpsw
    \/ PrintReport

Spec == Init /\ [][Next]_vars

\* a started worker runs on: the interpreter always takes the next step
FairSpec == Spec /\ WF_vars(Next)

(***************************************************************************)
(* Properties.                                                             *)
(***************************************************************************)
\* C1 (PrimalitySpec): on the native path is_bpsw_probable_prime(n) returns
\* true exactly when n is prime, for every n in 0..MaxN.
\* Violated by the code: the Lucas ladder rejects the prime 43.
C1_BpswAgreesWithReference ==
    (pc = "ret" /\ args.fn = "is_bpsw_probable_prime") => (result = IsPrime(args.n))

\* C2 (FairPrimalitySpec): miller_rabin returns a boolean for every n >= 0 and
\* every base list, and lucas_selfridge returns a boolean for every odd n > 2
\* (the D-selection loop always ends).
\* Violated by the code: for n = 15 the loop cycles through 5, -7, -5, 3.
C2_PrimalityTestsTerminate ==
    (\/ args.fn = "miller_rabin"
     \/ (args.fn = "lucas_selfridge" /\ args.n > 2 /\ args.n % 2 = 1))
    => <>(pc = "ret" /\ result \in BOOLEAN)

\* C10 (PrimalitySpec): the k-th candidate D of the D-selection loop
\* (k = 0, 1, 2, ...) is (-1)^k * (5 + 2k): 5, -7, 9, -11, 13, ...
\* Violated by the code: the third candidate is -5.
C10_SelfridgeSequence ==
    (pc = "lucas_d" /\ tried < MaxTried)
    => d = (IF tried % 2 = 0 THEN 5 + 2 * tried ELSE -(5 + 2 * tried))

\* C7 (ArithSpec): egcd(a, b) returns (g, x, y) with g = a*x + b*y and g >= 0,
\* for all integers a, b in -MaxAbs..MaxAbs.
\* Violated by the code: egcd(-1, 0) = (-1, 1, 0).
C7_EgcdBezoutNonNegative ==
    (pc = "ret" /\ args.fn = "egcd")
    => /\ result[1] = args.a * result[2] + args.b * result[3]
       /\ result[1] >= 0

\* C8 (ArithSpec): for residues a1, a2 and moduli m1, m2 >= 1, crt_pair raises
\* the incompatible-congruences error exactly when gcd(m1, m2) does not divide
\* a2 - a1, and otherwise returns (r, L) with L = lcm(m1, m2), 0 <= r < L,
\* r = a1 (mod m1) and r = a2 (mod m2).
C8_CrtPairContract ==
    (pc = "ret" /\ args.fn = "crt_pair")
    => IF (args.a2 - args.a1) % Gcd(args.m1, args.m2) # 0
       THEN ~result.ok /\ result.err = "ValueError"
       ELSE /\ result.ok
            /\ result.val[2] = Lcm(args.m1, args.m2)
            /\ 0 <= result.val[1] /\ result.val[1] < result.val[2]
            /\ (result.val[1] - args.a1) % args.m1 = 0
            /\ (result.val[1] - args.a2) % args.m2 = 0

\* C8 witness: crt_pair(1, 4, 3, 6), moduli with gcd 2, has returned (9, 12)
C8_Witness ==
    /\ pc = "ret" /\ args.fn = "crt_pair"
    /\ args.a1 = 1 /\ args.m1 = 4 /\ args.a2 = 3 /\ args.m2 = 6
    /\ result.ok /\ result.val = <<9, 12>>

\* the primes up to m
PrimesUpTo(m) == {q \in 2..m : IsPrime(q)}

\* C3 (Spec): main_odds with start = 2, end = 100 and no max_candidates ends
\* with a report in which checked = 50 and hit_count = 25, the hits being the
\* primes <= 100.
\* Violated by the code: start is rounded up to 3, so checked = 49 and 2 is no
\* hit, and the native BPSW rejects most primes above 37.
C3_MainOdds2To100 ==
    (/\ pc = "done" /\ args.task_type = "main_odds"
     /\ args.start = 2 /\ args.end = 100 /\ args.max_candidates = 0)
    => /\ checked = 50
       /\ Len(hits) = 25
       /\ {hits[i] : i \in 1..Len(hits)} = PrimesUpTo(100)

\* the positions of main between two iterations of its loop, and after it
BetweenIterations == pc \in {"range_loop", "chernick_loop", "seed_loop", "done"}

\* C4 as stated (Spec): between iterations, checked equals the number of
\* candidates on which is_bpsw_probable_prime was invoked; iterations whose
\* generator returned None do not contribute.
\* Violated by the code: checked is incremented before the generator runs.
C4_CheckedCountsBpswCalls ==
    BetweenIterations => checked = tested

\* C4 amended (Spec): in every task mode, between iterations, checked equals
\* the number of iterations begun: the candidates on which
\* is_bpsw_probable_prime was invoked plus the iterations whose generator
\* returned None.
C4_CheckedCountsIterations ==
    BetweenIterations => checked = tested + nones

\* C4 witness: a chernick run has ended with candidates tested and with
\* iterations whose generator returned None
C4_Witness ==
    /\ pc = "done" /\ args.task_type = "chernick"
    /\ nones > 0 /\ tested > 0 /\ checked = tested + nones

\* generate_pomerance_lite has returned a product
PomeranceLiteReturned ==
    /\ pc = "gen_ret" /\ args.task_type = "pomerance_lite"
    /\ ~candidate.is_none

\* C5 as stated (Spec): whenever generate_pomerance_lite returns a product, the
\* number of factors is odd.
\* Violated by the code: the loop breaks at 10 factors.
C5_FactorCountOdd ==
    PomeranceLiteReturned => Len(factors) % 2 = 1

\* C5 amended (Spec): whenever generate_pomerance_lite returns a product, the
\* number of factors is odd, or it is 10 (the hard cap of the loop).
C5_FactorCountOddOrCap ==
    PomeranceLiteReturned => (Len(factors) % 2 = 1 \/ Len(factors) = 10)

\* C5 witness: generate_pomerance_lite has returned the product of 10 factors
C5_Witness ==
    PomeranceLiteReturned /\ Len(factors) = 10 /\ candidate.n = prod(factors)

\* the pomerance_modular constraints of the run are CRT-incompatible
CrtIncompatible ==
    /\ args.task_type = "pomerance_modular"
    /\ ~build_mod_constraint(args.m_primes, args.n_primes, args.mod5_residue).ok

\* C6 (FairSpec): in seed mode with a nonempty seed range and compatible
\* constraints, every seed is either recorded in errors or BPSW-tested and the
\* executor goes on to the next seed, so the run ends with a report in which
\* len(errors) + (number of BPSW-tested products) = seed_end - seed_start + 1.
\* Violated by the code: lambda_plus_one can return 109, on which
\* is_bpsw_probable_prime never returns (C2).
C6_SeedModeCompletes ==
    (/\ args.task_type \in SeedTasks
     /\ ~(seed_start = 0 /\ seed_end = 0)
     /\ seed_start <= seed_end
     /\ ~CrtIncompatible)
    => <>(/\ pc = "done" /\ output = "report"
          /\ Len(errors) + tested = seed_end - seed_start + 1)

\* the required range of the task type is missing
MissingRange ==
    IF args.task_type \in SeedTasks
    THEN seed_start = 0 /\ seed_end = 0
    ELSE args.start = 0 /\ args.end = 0

\* C9 (Spec): a configuration error never leads to a report: with the range
\* missing no candidate is evaluated and nothing is printed, and with
\* CRT-incompatible pomerance_modular constraints nothing is printed, whatever
\* the seed range.
\* Violated by the code: with an empty seed range (--seed-start 1, no
\* --seed-end) build_mod_constraint is never called and the report is printed.
C9_ConfigErrorsEmitNoReport ==
    /\ MissingRange => (output # "report" /\ checked = 0 /\ tested = 0)
    /\ CrtIncompatible => output # "report"

====
